---- MODULE Spec2Model ----
(***************************************************************************)
(* Model of analyzer/windows/lib/common/zip_utils.py (CAPEv2): the nested  *)
(* ZIP extractor extract_zip / is_overwritten, the 7-Zip driver            *)
(* extract_archive, the listing parser get_file_names and the file filter  *)
(* get_interesting_files.                                                  *)
(***************************************************************************)
EXTENDS Integers, Sequences, FiniteSets, TLC

VARIABLES
    \* ---- extract_zip ----
    input,      \* the top-level call: [top, sameDir, password]
    fs,         \* the file system: path -> content, for the files that exist
    stack,      \* the Python call stack of extract_zip invocations
    result,     \* what the top-level caller receives ("running" until then)
    expanded,   \* ids of the archives extractall was started on
    rets,       \* one record per finished invocation (history)
    logged,     \* number of log.warning/log.error lines of the nested handlers
    \* ---- extract_archive ----
    ea_in,      \* the call: [password, extract_path]
    ea_pc,      \* position in extract_archive
    runs,       \* the runs of the external tool so far: [pw, stdout, stderr]
    tree,       \* whether the destination directory tree exists
    rmtrees,    \* for each shutil.rmtree call, the number of runs made before it
    ea_result,  \* what the caller of extract_archive receives
    \* ---- get_file_names ----
    gl_pc,      \* position in get_file_names
    report,     \* the lines of the listing read so far (indices of ReportLines)
    in_table,
    items_under_header,
    file_names,
    \* ---- get_interesting_files ----
    gi_pc,      \* position of the caller of get_interesting_files
    regexLib,   \* the module bound to `re` by lines 9-12: "re2" or "re"
    gi_in,      \* the argument file_names
    interesting_files,  \* the list returned
    filtered_again,     \* the list returned for the returned list
    \* ---- execute_interesting_file ----
    options,    \* self.options: function, arguments, dllloader ("" when unset)
    disk,       \* names of the binaries that exist where launchers are looked up
    dispatched, \* outcome of each dispatch the caller has made so far
    dispatch,   \* the last dispatch: its file, the disk around it, calls, result
    \* ---- upload_extracted_files ----
    up_pc,      \* position in upload_extracted_files
    files_at_root,  \* the argument
    up_i,       \* index of the next entry of the loop
    up_calls,   \* the calls made to hash_file, upload_to_host and log.warning
    up_result   \* what the caller of upload_extracted_files receives

zipVars == <<input, fs, stack, result, expanded, rets, logged>>
eaVars == <<ea_in, ea_pc, runs, tree, rmtrees, ea_result>>

listVars == <<gl_pc, report, in_table, items_under_header, file_names>>
filterVars == <<gi_pc, regexLib, gi_in, interesting_files, filtered_again>>

dispatchVars == <<options, disk, dispatched, dispatch>>
uploadVars == <<up_pc, files_at_root, up_i, up_calls, up_result>>

vars == <<zipVars, eaVars, listVars, filterVars, dispatchVars, uploadVars>>

(***************************************************************************)
(* Bounds of the model.                                                    *)
(***************************************************************************)
MaxNest == 5        \* longest chain of archives nested in one another
MaxMembers == 2     \* members of a top-level archive that is not a chain
MaxLines == 5       \* lines of a listing
MaxNames == 4       \* names handed to get_interesting_files
MaxDispatch == 3    \* candidate files the caller dispatches one after the other
MaxEntries == 3     \* entries handed to upload_extracted_files

(***************************************************************************)
(* File names, contents and passwords.  A name is the sequence of its      *)
(* stem and its dot-suffixes, so that appending ".old" and testing         *)
(* endswith(".zip") are computed, not assumed.                             *)
(***************************************************************************)
zipA == <<"a", ".zip">>
zipB == <<"b", ".zip">>
zipC == <<"c", ".zip">>
oldA == <<"a", ".zip", ".old">>
fExe == <<"f", ".exe">>

NoContent == [k |-> "none", id |-> 0, ms |-> <<>>, pw |-> ""]
Blob(i) == [k |-> "blob", id |-> i, ms |-> <<>>, pw |-> ""]
\* member data whose CRC check fails when it is read
Corrupt == [k |-> "corrupt", id |-> 0, ms |-> <<>>, pw |-> ""]
\* a readable ZIP container: its members and the password of the encrypted ones
Zip(i, ms, pw) == [k |-> "zip", id |-> i, ms |-> ms, pw |-> pw]
\* a ZipInfo: file name, bit 0 of flag_bits, and the data
Member(n, e, c) == [n |-> n, enc |-> e, c |-> c]

Str(v) == [t |-> "str", v |-> v]
Bytes(v) == [t |-> "bytes", v |-> v]
NoPassword == [t |-> "none", v |-> ""]

Path(d, n) == [d |-> d, n |-> n]

\* a bound that lets one more level of nesting through
DepthLimitPlusOne == 4 + 1

\* recursion_depth < 4
DepthLimit == 4

\* name.endswith(".zip")
EndsWithZip(name) == name[Len(name)] = ".zip"

\* os.path.basename(zip_path)
basename(zip_path) == zip_path.n

\* os.path.join(extract_path, name); extract_path is the directory "dst"
join(name) == Path("dst", name)

\* f"{zip_path}.old"
OldPath(zip_path) == Path(zip_path.d, Append(zip_path.n, ".old"))

\* open(targetpath, "wb") and write: creates or replaces the file
Write(files, p, c) ==
    [q \in DOMAIN files \cup {p} |-> IF q = p THEN c ELSE files[q]]

\* shutil.move(src, dst): rename, replacing dst if it exists
MoveFile(files, src, dst) ==
    [q \in (DOMAIN files \ {src}) \cup {dst} |->
        IF q = dst THEN files[src] ELSE files[q]]

\* any(name == os.path.basename(zip_path) for name in archive.namelist())
SelfNamed(archive, zip_path) ==
    \E j \in 1..Len(archive.ms) : archive.ms[j].n = basename(zip_path)

\* password.encode() when isinstance(password, str)
Encode(password) ==
    IF password.t = "str" THEN Bytes(password.v) ELSE password

\* a normalisation that forces the default on every encrypted archive
NormaliseAlways(infolist, password) ==
    IF \E j \in 1..Len(infolist) : infolist[j].enc THEN Bytes("infected") ELSE password

\* the loop over archive.infolist() that sets the default password
RECURSIVE NormalisePassword(_, _)
NormalisePassword(infolist, password) ==
    IF infolist = <<>> THEN password
    ELSE LET is_encrypted == Head(infolist).enc
             p == IF is_encrypted /\ password \in {Bytes(""), Bytes("infected")}
                     /\ password = Bytes("")
                  THEN Bytes("infected")
                  ELSE password
         IN  NormalisePassword(Tail(infolist), p)

(***************************************************************************)
(* ZipFile.extractall(path=extract_path, pwd=password): the members are    *)
(* written in order; the first member that cannot be read ends the call.   *)
(*   "pwd": RuntimeError (bad password / password required), raised        *)
(*          before the member's file is created;                           *)
(*   "bad": BadZipfile (CRC failure, after the member's file was written). *)
(* flaky: the backend rejects the password although it is right.           *)
(* clob/die: a member was written over the archive being read; what the    *)
(* reader sees afterwards is not defined, it goes on or raises BadZipfile. *)
(***************************************************************************)
RECURSIVE extractall(_, _, _, _, _, _, _, _)
extractall(files, clob, ms, pwd, zpw, src, flaky, die) ==
    IF ms = <<>> THEN [fs |-> files, out |-> "ok", clob |-> clob]
    ELSE LET m == Head(ms)
             target == join(m.n)
         IN  IF clob /\ die
             THEN [fs |-> files, out |-> "bad", clob |-> clob]
             ELSE IF m.enc /\ (flaky \/ pwd.v # zpw)
             THEN [fs |-> files, out |-> "pwd", clob |-> clob]
             ELSE IF m.c.k = "corrupt"
             THEN [fs |-> Write(files, target, Blob(0)), out |-> "bad",
                   clob |-> clob \/ target = src]
             ELSE extractall(Write(files, target, m.c), clob \/ target = src,
                             Tail(ms), pwd, zpw, src, flaky, die)

(***************************************************************************)
(* One invocation of extract_zip.                                          *)
(***************************************************************************)
Frame(zip_path, password, recursion_depth) ==
    [zip_path |-> zip_path, arg |-> password, password |-> password,
     recursion_depth |-> recursion_depth, pc |-> "guard",
     archive |-> NoContent, i |-> 1, exc |-> "none", own |-> "unset",
     renamed |-> FALSE, orig |-> NoContent, clob |-> FALSE,
     a1 |-> "none", a2 |-> "none", pw1 |-> NoPassword, pw2 |-> NoPassword]

Top == stack[Len(stack)]
SetTop(f) == [stack EXCEPT ![Len(stack)] = f]
Running(pc) == result = "running" /\ stack # <<>> /\ Top.pc = pc

(***************************************************************************)
(* The archives a run starts from.                                         *)
(***************************************************************************)
ChainName(naming, lvl) ==
    IF naming = "same" THEN zipA ELSE <<ToString(lvl), ".zip">>

\* level lvl of a chain of `last` archives, each containing only the next
RECURSIVE Chain(_, _, _)
Chain(lvl, last, naming) ==
    Zip(lvl,
        IF lvl = last THEN <<Member(fExe, FALSE, Blob(1))>>
        ELSE <<Member(ChainName(naming, lvl + 1), FALSE, Chain(lvl + 1, last, naming))>>,
        "infected")

ChainTops == {Chain(1, last, naming) : last \in 1..MaxNest, naming \in {"same", "distinct"}}

MemberOptions ==
    { Member(fExe, FALSE, Blob(1)),
      Member(fExe, TRUE, Blob(1)),
      Member(zipA, FALSE, Blob(2)),
      Member(oldA, FALSE, Blob(3)),
      Member(zipB, FALSE, Zip(2, <<Member(fExe, FALSE, Blob(4))>>, "infected")),
      Member(zipB, FALSE, Zip(3, <<Member(fExe, TRUE, Blob(5))>>, "abc")),
      Member(zipC, FALSE, Zip(4, <<Member(fExe, FALSE, Corrupt)>>, "infected")),
      Member(zipC, TRUE, Zip(5, <<Member(fExe, FALSE, Blob(6))>>, "infected")) }

RECURSIVE SeqsUpTo(_, _)
SeqsUpTo(S, n) ==
    IF n = 0 THEN {<<>>}
    ELSE LET shorter == SeqsUpTo(S, n - 1)
         IN  shorter \cup {Append(s, x) : s \in {t \in shorter : Len(t) = n - 1}, x \in S}

WideTops == {Zip(1, ms, "infected") : ms \in SeqsUpTo(MemberOptions, MaxMembers) \ {<<>>}}

\* two archives that each fail on an encrypted first member and name the other
\* as their second member, both delivered by the same top-level archive
cycB == Zip(11, <<Member(fExe, TRUE, Blob(7)), Member(zipC, FALSE, Blob(8))>>, "abc")
cycC == Zip(12, <<Member(fExe, TRUE, Blob(7)), Member(zipB, FALSE, Blob(8))>>, "abc")
LoopTops == {Zip(1, <<Member(zipC, FALSE, cycC), Member(zipB, FALSE, cycB)>>, "infected")}

\* an archive that, once renamed for its member of its own name, has a member
\* of the new name too, followed by an encrypted member
ClobberTops ==
    {Zip(1, <<Member(zipA, FALSE, Blob(2)), Member(oldA, FALSE, Blob(3)),
              Member(fExe, TRUE, Blob(1))>>, "infected")}

Tops == ChainTops \cup WideTops \cup LoopTops \cup ClobberTops \cup {Blob(9)}

PasswordArgs == {Str(""), Bytes(""), Bytes("infected"), Str("infected"), Str("abc")}

TopPath(sameDir) == Path(IF sameDir THEN "dst" ELSE "src", zipA)

\* the other operations of the module are not running
EaIdle ==
    /\ ea_in = [password |-> "", extract_path |-> <<>>]
    /\ ea_pc = "idle"
    /\ runs = <<>>
    /\ tree = FALSE
    /\ rmtrees = <<>>
    /\ ea_result = "idle"

ListIdle ==
    /\ gl_pc = "idle"
    /\ report = <<>>
    /\ in_table = FALSE
    /\ items_under_header = FALSE
    /\ file_names = <<>>

FilterIdle ==
    /\ gi_pc = "idle"
    /\ regexLib = "re"
    /\ gi_in = <<>>
    /\ interesting_files = <<>>
    /\ filtered_again = <<>>

NoDispatch ==
    [file |-> [name |-> <<>>, content |-> <<>>, export |-> "", pe |-> FALSE],
     before |-> {}, after |-> {}, calls |-> <<>>, result |-> "idle", case |-> 0]

DispatchIdle ==
    /\ options = [function |-> "", arguments |-> "", dllloader |-> ""]
    /\ disk = {}
    /\ dispatched = <<>>
    /\ dispatch = NoDispatch

UploadIdle ==
    /\ up_pc = "idle"
    /\ files_at_root = <<>>
    /\ up_i = 0
    /\ up_calls = <<>>
    /\ up_result = "idle"

notZipVars == <<eaVars, listVars, filterVars, dispatchVars, uploadVars>>
notEaVars == <<zipVars, listVars, filterVars, dispatchVars, uploadVars>>
notListVars == <<zipVars, eaVars, filterVars, dispatchVars, uploadVars>>
notFilterVars == <<zipVars, eaVars, listVars, dispatchVars, uploadVars>>
notDispatchVars == <<zipVars, eaVars, listVars, filterVars, uploadVars>>
notUploadVars == <<zipVars, eaVars, listVars, filterVars, dispatchVars>>

ZipIdle ==
    /\ input = [top |-> NoContent, sameDir |-> FALSE, password |-> NoPassword]
    /\ fs = <<>>
    /\ stack = <<>>
    /\ result = "idle"
    /\ expanded = {}
    /\ rets = {}
    /\ logged = 0

ZipInit ==
    /\ EaIdle /\ ListIdle /\ FilterIdle /\ DispatchIdle /\ UploadIdle
    /\ input \in [top : Tops, sameDir : BOOLEAN, password : PasswordArgs]
    /\ fs = (TopPath(input.sameDir) :> input.top)
    /\ stack = <<Frame(TopPath(input.sameDir), input.password, 1)>>
    /\ result = "running"
    /\ expanded = {}
    /\ rets = {}
    /\ logged = 0

(***************************************************************************)
(* extract_zip, lines 196-202 with is_overwritten: ZipFile(zip_path) is    *)
(* opened outside is_overwritten's try, so FileNotFoundError and           *)
(* BadZipfile leave the call as they are.                                  *)
(***************************************************************************)
Guard ==
    /\ Running("guard")
    /\ LET f == Top IN
       IF f.zip_path \notin DOMAIN fs
       THEN /\ stack' = SetTop([f EXCEPT !.exc = "FileNotFoundError", !.pc = "ret"])
            /\ fs' = fs
       ELSE IF fs[f.zip_path].k # "zip"
       THEN /\ stack' = SetTop([f EXCEPT !.exc = "BadZipfile", !.pc = "ret"])
            /\ fs' = fs
       ELSE IF SelfNamed(fs[f.zip_path], f.zip_path)
       THEN /\ fs' = MoveFile(fs, f.zip_path, OldPath(f.zip_path))
            /\ stack' = SetTop([f EXCEPT !.zip_path = OldPath(f.zip_path),
                                         !.renamed = TRUE,
                                         !.orig = fs[f.zip_path],
                                         !.pc = "open"])
       ELSE /\ fs' = fs
            /\ stack' = SetTop([f EXCEPT !.pc = "open"])
    /\ UNCHANGED <<input, result, expanded, rets, logged>>
    /\ UNCHANGED notZipVars

\* lines 204-218: encode, ZipFile(zip_path, "r"), password normalisation
Open ==
    /\ Running("open")
    /\ LET f == Top
           archive == fs[f.zip_path]
       IN  stack' = SetTop([f EXCEPT !.archive = archive,
                                     !.password = NormalisePassword(archive.ms, Encode(f.password)),
                                     !.pc = "try1"])
    /\ UNCHANGED <<input, fs, result, expanded, rets, logged>>
    /\ UNCHANGED notZipVars

\* lines 221-226: the first extractall and its handlers
Extract1 ==
    /\ Running("try1")
    /\ \E flaky \in BOOLEAN, die \in BOOLEAN :
         LET f == Top
             r == extractall(fs, f.clob, f.archive.ms, f.password, f.archive.pw,
                             f.zip_path, flaky, die)
         IN  /\ fs' = r.fs
             /\ stack' = SetTop(
                  [f EXCEPT !.a1 = r.out, !.pw1 = f.password, !.clob = r.clob,
                            !.exc = IF r.out = "bad" THEN "InvalidArchive" ELSE "none",
                            !.own = IF r.out = "bad" THEN "InvalidArchive"
                                    ELSE IF r.out = "ok" THEN "none" ELSE "unset",
                            !.pc = IF r.out = "pwd" THEN "try2" ELSE "fin"])
             /\ expanded' = expanded \cup {f.archive.id}
    /\ UNCHANGED <<input, result, rets, logged>>
    /\ UNCHANGED notZipVars

\* lines 227-230: the second extractall, inside the RuntimeError handler
Extract2 ==
    /\ Running("try2")
    /\ \E flaky \in BOOLEAN, die \in BOOLEAN :
         LET f == Top
             r == extractall(fs, f.clob, f.archive.ms, f.password, f.archive.pw,
                             f.zip_path, flaky, die)
             e == IF r.out = "pwd" THEN "WrongPassword"
                  ELSE IF r.out = "bad" THEN "BadZipfile" ELSE "none"
         IN  /\ fs' = r.fs
             /\ stack' = SetTop(
                  [f EXCEPT !.a2 = r.out, !.pw2 = f.password, !.clob = r.clob,
                            !.exc = e, !.own = e, !.pc = "fin"])
    /\ UNCHANGED <<input, result, expanded, rets, logged>>
    /\ UNCHANGED notZipVars

\* lines 232-235: a member whose name does not end in ".zip"
LoopSkip ==
    /\ Running("fin")
    /\ Top.recursion_depth < DepthLimit
    /\ Top.i <= Len(Top.archive.ms)
    /\ ~EndsWithZip(Top.archive.ms[Top.i].n)
    /\ stack' = SetTop([Top EXCEPT !.i = @ + 1])
    /\ UNCHANGED <<input, fs, result, expanded, rets, logged>>
    /\ UNCHANGED notZipVars

\* mutation of NextDepth: the nested call gets the caller's depth
SameDepth(recursion_depth) == recursion_depth

\* line 242: recursion_depth=recursion_depth + 1
NextDepth(recursion_depth) == recursion_depth + 1

\* lines 235-243: the recursive call
LoopCall ==
    /\ Running("fin")
    /\ Top.recursion_depth < DepthLimit
    /\ Top.i <= Len(Top.archive.ms)
    /\ EndsWithZip(Top.archive.ms[Top.i].n)
    /\ stack' = Append(stack, Frame(join(Top.archive.ms[Top.i].n), Top.password,
                                    NextDepth(Top.recursion_depth)))
    /\ UNCHANGED <<input, fs, result, expanded, rets, logged>>
    /\ UNCHANGED notZipVars

\* the finally block is left: the depth bound or the end of namelist()
LoopEnd ==
    /\ Running("fin")
    /\ \/ Top.recursion_depth >= DepthLimit
       \/ Top.i > Len(Top.archive.ms)
    /\ stack' = SetTop([Top EXCEPT !.pc = "ret"])
    /\ UNCHANGED <<input, fs, result, expanded, rets, logged>>
    /\ UNCHANGED notZipVars

Outcome(f) == IF f.exc = "none" THEN "ok" ELSE f.exc
Pop == SubSeq(stack, 1, Len(stack) - 1)
Ret(f) == [f |-> f, out |-> Outcome(f)]

\* exceptions the handlers of lines 244-247 catch
Caught(exc) == exc \in {"BadZipfile", "RuntimeError"}

\* the top-level call ends: the caller receives its outcome
Finish ==
    /\ Running("ret")
    /\ Len(stack) = 1
    /\ result' = Outcome(Top)
    /\ rets' = rets \cup {Ret(Top)}
    /\ stack' = <<>>
    /\ UNCHANGED <<input, fs, expanded, logged>>
    /\ UNCHANGED notZipVars

\* a nested call returns normally: the loop goes on
NestedReturns ==
    /\ Running("ret")
    /\ Len(stack) > 1
    /\ Top.exc = "none"
    /\ rets' = rets \cup {Ret(Top)}
    /\ stack' = [Pop EXCEPT ![Len(stack) - 1].i = @ + 1]
    /\ UNCHANGED <<input, fs, result, expanded, logged>>
    /\ UNCHANGED notZipVars

\* lines 244-247: the nested call raised BadZipfile or RuntimeError: logged
NestedCaught ==
    /\ Running("ret")
    /\ Len(stack) > 1
    /\ Top.exc # "none" /\ Caught(Top.exc)
    /\ rets' = rets \cup {Ret(Top)}
    /\ logged' = logged + 1
    /\ stack' = [Pop EXCEPT ![Len(stack) - 1].i = @ + 1]
    /\ UNCHANGED <<input, fs, result, expanded>>
    /\ UNCHANGED notZipVars

\* any other exception of the nested call leaves the finally block of the
\* caller, replacing the exception the caller had pending
NestedPropagates ==
    /\ Running("ret")
    /\ Len(stack) > 1
    /\ Top.exc # "none" /\ ~Caught(Top.exc)
    /\ rets' = rets \cup {Ret(Top)}
    /\ stack' = [Pop EXCEPT ![Len(stack) - 1].exc = Top.exc,
                            ![Len(stack) - 1].pc = "ret"]
    /\ UNCHANGED <<input, fs, result, expanded, logged>>
    /\ UNCHANGED notZipVars

ZipNext ==
    \/ Guard
    \/ Open
    \/ Extract1
    \/ Extract2
    \/ LoopSkip
    \/ LoopCall
    \/ LoopEnd
    \/ Finish
    \/ NestedReturns
    \/ NestedCaught
    \/ NestedPropagates

Spec == ZipInit /\ [][ZipNext]_vars

\* the interpreter keeps executing the call: no step is postponed forever
SpecTerminating == ZipInit /\ [][ZipNext]_vars /\ WF_vars(ZipNext)

(***************************************************************************)
(* Claims about extract_zip, checked under Spec.                           *)
(***************************************************************************)
Frames == {stack[k] : k \in DOMAIN stack} \cup {r.f : r \in rets}
AnyEncrypted(archive) == \E j \in 1..Len(archive.ms) : archive.ms[j].enc
FiveChain == {Chain(1, 5, naming) : naming \in {"same", "distinct"}}

\* C1: every invocation has recursion_depth in 1..4; an invocation at depth 4
\* extracts its members, calls nothing and raises nothing for the skipped
\* '.zip' member; in a chain of five nested ZIPs levels 1 to 4 are expanded
\* and level 5 never is.
C1_DepthBounded ==
    /\ \A k \in DOMAIN stack : stack[k].recursion_depth = k /\ k \in 1..4
    /\ \A r \in rets :
         /\ r.f.recursion_depth \in 1..4
         /\ (r.f.recursion_depth = 4 /\ r.f.own # "unset") =>
               /\ r.f.i = 1
               /\ r.f.archive.id \in expanded
               /\ r.out = (IF r.f.own = "none" THEN "ok" ELSE r.f.own)
    /\ input.top \in FiveChain =>
         /\ 5 \notin expanded
         /\ result # "running" => expanded = 1..4

C1_Witness ==
    /\ input.top \in FiveChain
    /\ result = "ok"
    /\ expanded = 1..4
    /\ \E r \in rets : r.f.recursion_depth = 4 /\ EndsWithZip(r.f.archive.ms[1].n)

\* C2: once extract_zip has renamed an archive that has a member of its own
\* name, the renamed file keeps the original archive's bytes until the call
\* ends.
C2_OriginalKept ==
    \A k \in DOMAIN stack :
        stack[k].renamed =>
            /\ stack[k].zip_path \in DOMAIN fs
            /\ fs[stack[k].zip_path] = stack[k].orig

\* C3: an empty password on an archive with an encrypted member becomes
\* b"infected" for every extraction attempt and every nested call; a password
\* that is neither empty nor the default, and any password on an unencrypted
\* archive, reaches extraction with its bytes unchanged.
C3_UsedPasswords(f) == {f.pw1, f.pw2} \ {NoPassword}

C3_Password ==
    /\ \A f \in Frames : \A p \in C3_UsedPasswords(f) :
         /\ (AnyEncrypted(f.archive) /\ f.arg.v = "") => p = Bytes("infected")
         /\ f.arg.v \notin {"", "infected"} => p = Bytes(f.arg.v)
         /\ ~AnyEncrypted(f.archive) => p = Bytes(f.arg.v)
    /\ \A k \in DOMAIN stack : k > 1 =>
         LET parent == stack[k - 1] IN
         /\ (AnyEncrypted(parent.archive) /\ parent.arg.v = "") =>
               stack[k].arg = Bytes("infected")
         /\ (parent.arg.v \notin {"", "infected"} \/ ~AnyEncrypted(parent.archive)) =>
               stack[k].arg = Bytes(parent.arg.v)

C3_Witness ==
    \E f \in Frames :
        /\ f.arg = Str("")
        /\ AnyEncrypted(f.archive)
        /\ f.pw1 = Bytes("infected") /\ f.pw2 = Bytes("infected")
        /\ \E g \in Frames : g.recursion_depth = 2 /\ g.arg = Bytes("infected")

\* C4: an invocation whose two extraction attempts were both rejected for the
\* password ends with WrongPassword.
C4_WrongPassword ==
    \A r \in rets :
        (r.f.a1 = "pwd" /\ r.f.a2 = "pwd") => r.out = "WrongPassword"

\* C5: a failing nested extraction aborts nothing: an invocation that got to
\* its recursion step visits every member of its list (below depth 4) and
\* ends with the outcome its own extraction attempts gave it.
C5_NestedIsolated ==
    \A r \in rets :
        r.f.own # "unset" =>
            /\ r.out = (IF r.f.own = "none" THEN "ok" ELSE r.f.own)
            /\ r.f.recursion_depth < 4 => r.f.i = Len(r.f.archive.ms) + 1

\* C6: a top-level call on a file that is not a ZIP container ends with
\* InvalidArchive, nothing renamed and nothing written.
C6_InvalidArchive ==
    (input.top.k # "zip" /\ result # "running") =>
        /\ result = "InvalidArchive"
        /\ fs = (TopPath(input.sameDir) :> input.top)

\* C15: an invocation makes a second extraction attempt exactly when its
\* first one was rejected for the password, with the same password; an
\* attempt that finds the container invalid, be it the first or the second,
\* is the last one and gives the invocation the outcome InvalidArchive.
C15_AttemptsAndInvalid ==
    \A f \in Frames :
        /\ f.a2 # "none" => (f.a1 = "pwd" /\ f.pw2 = f.pw1)
        /\ (f.pc \in {"fin", "ret"} /\ f.a1 = "pwd") => f.a2 # "none"
        /\ f.a1 = "bad" => f.a2 = "none"
        /\ (f.pc \in {"fin", "ret"} /\ "bad" \in {f.a1, f.a2}) => f.own = "InvalidArchive"

\* C20: every top-level call ends; the invocations on the stack have the
\* depths 1, 2, 3, ... in order, never more than 4 of them.
C20_Terminates ==
    /\ [](/\ Len(stack) <= 4
          /\ \A k \in DOMAIN stack : stack[k].recursion_depth = k)
    /\ <>(result # "running")

\* the call has ended although an archive was entered again, at depth 4,
\* through the path an earlier archive left it at
C20_Witness ==
    /\ result # "running"
    /\ input.top \in LoopTops
    /\ \E r1, r2 \in rets :
         /\ r1.f.archive.id = r2.f.archive.id
         /\ r1.f.archive.k = "zip"
         /\ r1.f.recursion_depth = 2
         /\ r2.f.recursion_depth = 4

(***************************************************************************)
(* extract_archive: the 7-Zip driver.  A stream of the tool is the         *)
(* sequence of the messages it printed; `text in stream` finds a message   *)
(* verbatim (case-sensitive).                                              *)
(***************************************************************************)
Contains(stream, text) == \E j \in 1..Len(stream) : stream[j] = text

Outputs ==
    { <<>>,
      <<"Everything is Ok">>,
      <<"Wrong password">>,
      <<"ERROR", "Wrong password">>,
      <<"wrong password">>,
      <<"Can not open the file as archive">>,
      <<"Can not open the file as archive", "Wrong password">> }

ExtractPaths ==
    { <<"C:", "Users", "u", "AppData", "Local", "Temp">>,
      <<"C:", "Users", "u", "AppData", "Local", "Temp", "x">>,
      <<"local", "temp">>,
      <<"C:", "out">> }

\* case folding of a path component (Windows paths compare without case)
LowerWord(w) ==
    CASE w = "Local" -> "local"
      [] w = "Temp" -> "temp"
      [] OTHER -> w

\* a match that compares the components letter for letter
MatchesLocalTempExact(extract_path) ==
    /\ Len(extract_path) >= 2
    /\ extract_path[Len(extract_path) - 1] = "local"
    /\ extract_path[Len(extract_path)] = "temp"

\* Path(extract_path).match("local\\temp"): a relative pattern is matched
\* against the last components of the path
MatchesLocalTemp(extract_path) ==
    /\ Len(extract_path) >= 2
    /\ LowerWord(extract_path[Len(extract_path) - 1]) = "local"
    /\ LowerWord(extract_path[Len(extract_path)]) = "temp"

\* a retry test that looks at both streams
RetryWantedAnyStream(run) ==
    Contains(run.stderr, "Wrong password") \/ Contains(run.stdout, "Wrong password")

\* b"Wrong password" in stderr
RetryWanted(run) == Contains(run.stderr, "Wrong password")

\* an archive test that reads the error stream
InvalidWantedStderr(run) == Contains(run.stderr, "Can not open the file as archive")

\* b"Can not open the file as archive" in stdoutput
InvalidWanted(run) == Contains(run.stdout, "Can not open the file as archive")

EaInit ==
    /\ ZipIdle /\ ListIdle /\ FilterIdle /\ DispatchIdle /\ UploadIdle
    /\ ea_in \in [password : {"infected", "abc", ""}, extract_path : ExtractPaths]
    /\ ea_pc = "run1"
    /\ runs = <<>>
    /\ tree = FALSE
    /\ rmtrees = <<>>
    /\ ea_result = "running"

\* lines 119-127: the first run, with the empty password of "-p"
Run1 ==
    /\ ea_pc = "run1"
    /\ \E out \in Outputs, err \in Outputs :
         runs' = <<[pw |-> "", stdout |-> out, stderr |-> err]>>
    /\ tree' = TRUE
    /\ ea_pc' = "check1"
    /\ UNCHANGED <<ea_in, rmtrees, ea_result>>
    /\ UNCHANGED notEaVars

\* lines 128-139: the destination is deleted unless it is the temp directory,
\* and the tool runs again with the caller's password
Retry ==
    /\ ea_pc = "check1"
    /\ RetryWanted(runs[1])
    /\ rmtrees' = IF ~MatchesLocalTemp(ea_in.extract_path)
                  THEN Append(rmtrees, Len(runs)) ELSE rmtrees
    /\ \E out \in Outputs, err \in Outputs :
         runs' = Append(runs, [pw |-> ea_in.password, stdout |-> out, stderr |-> err])
    /\ tree' = TRUE
    /\ ea_pc' = "check2"
    /\ UNCHANGED <<ea_in, ea_result>>
    /\ UNCHANGED notEaVars

\* lines 142-143: raise TypeError("Unable to open the file as archive")
RaiseInvalid ==
    /\ ea_pc = "check1"
    /\ ~RetryWanted(runs[1])
    /\ InvalidWanted(runs[1])
    /\ ea_result' = "InvalidArchive"
    /\ ea_pc' = "done"
    /\ UNCHANGED <<ea_in, runs, tree, rmtrees>>
    /\ UNCHANGED notEaVars

\* neither branch of lines 128-143 is taken
ReturnFirst ==
    /\ ea_pc = "check1"
    /\ ~RetryWanted(runs[1])
    /\ ~InvalidWanted(runs[1])
    /\ ea_result' = "ok"
    /\ ea_pc' = "done"
    /\ UNCHANGED <<ea_in, runs, tree, rmtrees>>
    /\ UNCHANGED notEaVars

\* lines 140-141: raise Exception("Wrong password provided")
RaiseWrongPassword ==
    /\ ea_pc = "check2"
    /\ RetryWanted(runs[2])
    /\ ea_result' = "WrongPassword"
    /\ ea_pc' = "done"
    /\ UNCHANGED <<ea_in, runs, tree, rmtrees>>
    /\ UNCHANGED notEaVars

\* the retry did not report a wrong password: the call returns
ReturnRetry ==
    /\ ea_pc = "check2"
    /\ ~RetryWanted(runs[2])
    /\ ea_result' = "ok"
    /\ ea_pc' = "done"
    /\ UNCHANGED <<ea_in, runs, tree, rmtrees>>
    /\ UNCHANGED notEaVars

EaNext ==
    \/ Run1
    \/ Retry
    \/ RaiseInvalid
    \/ ReturnFirst
    \/ RaiseWrongPassword
    \/ ReturnRetry

SpecArchive == EaInit /\ [][EaNext]_vars

(***************************************************************************)
(* Claims about extract_archive, checked under SpecArchive.                *)
(***************************************************************************)
\* C7: the tool runs at most twice; the second run happens exactly when the
\* first run's stderr has 'Wrong password' and it uses the caller's
\* password; the call fails with the wrong-password error exactly when the
\* second run's stderr has 'Wrong password' too.
C7_AtMostTwoRuns ==
    /\ Len(runs) <= 2
    /\ Len(runs) = 2 =>
         /\ \E j \in 1..Len(runs[1].stderr) : runs[1].stderr[j] = "Wrong password"
         /\ runs[2].pw = ea_in.password
    /\ ea_pc = "done" =>
         /\ (\E j \in 1..Len(runs[1].stderr) : runs[1].stderr[j] = "Wrong password")
               => Len(runs) = 2
         /\ ea_result = "WrongPassword" <=>
               /\ Len(runs) = 2
               /\ \E j \in 1..Len(runs[2].stderr) : runs[2].stderr[j] = "Wrong password"

C7_Witness ==
    /\ ea_pc = "done"
    /\ Len(runs) = 2
    /\ ea_in.password = "abc" /\ runs[2].pw = "abc"
    /\ ea_result = "WrongPassword"

\* C8 as claimed: a run whose stdout has 'Can not open the file as archive'
\* makes the call fail with InvalidArchive, whatever its stderr holds and
\* whether it is the first run or the retry.
C8_InvalidOnAnyRun ==
    ea_pc = "done" =>
        ((\E k \in DOMAIN runs :
             \E j \in 1..Len(runs[k].stdout) :
                 runs[k].stdout[j] = "Can not open the file as archive")
         => ea_result = "InvalidArchive")

\* C8 as amended: the call fails with InvalidArchive exactly when the first
\* run's stderr has no 'Wrong password' and its stdout has 'Can not open the
\* file as archive'; the stdout of a retry is not inspected.
C8_InvalidOnFirstRun ==
    ea_pc = "done" =>
        (ea_result = "InvalidArchive" <=>
            /\ ~\E j \in 1..Len(runs[1].stderr) : runs[1].stderr[j] = "Wrong password"
            /\ \E j \in 1..Len(runs[1].stdout) :
                   runs[1].stdout[j] = "Can not open the file as archive")

C8_Witness ==
    /\ ea_pc = "done"
    /\ ea_result = "InvalidArchive"
    /\ Len(runs) = 1
    /\ runs[1].stderr = <<"wrong password">>
    /\ runs[1].stdout = <<"Can not open the file as archive", "Wrong password">>

\* the sample destinations whose last two components are local\temp
C16_TempPaths ==
    { <<"C:", "Users", "u", "AppData", "Local", "Temp">>, <<"local", "temp">> }

\* C16: extract_archive deletes the destination tree at most once, and only
\* after a first run whose stderr has 'Wrong password', before the retry, for
\* a destination that does not match local\temp; nothing is deleted after the
\* retry, nor when the first run reports no wrong password or the path matches.
C16_DeleteOnlyBeforeRetry ==
    /\ Len(rmtrees) <= 1
    /\ \A j \in DOMAIN rmtrees :
         /\ rmtrees[j] = 1
         /\ Contains(runs[1].stderr, "Wrong password")
         /\ ea_in.extract_path \notin C16_TempPaths
    /\ (ea_pc \in {"check2", "done"} /\ Len(runs) = 2
            /\ ea_in.extract_path \notin C16_TempPaths) => rmtrees = <<1>>

\* a retry was made after the destination C:\out was deleted, and the call ended
C16_Witness ==
    /\ ea_pc = "done"
    /\ Len(runs) = 2
    /\ rmtrees = <<1>>
    /\ ea_in.extract_path = <<"C:", "out">>

(***************************************************************************)
(* Text.  A string the code inspects character by character is the         *)
(* sequence of its characters.                                             *)
(***************************************************************************)
UpperCase ==
    <<"A", "B", "C", "D", "E", "F", "G", "H", "I", "J", "K", "L", "M",
      "N", "O", "P", "Q", "R", "S", "T", "U", "V", "W", "X", "Y", "Z">>
LowerCase ==
    <<"a", "b", "c", "d", "e", "f", "g", "h", "i", "j", "k", "l", "m",
      "n", "o", "p", "q", "r", "s", "t", "u", "v", "w", "x", "y", "z">>
Digits == {"0", "1", "2", "3", "4", "5", "6", "7", "8", "9"}

LowerChar(c) ==
    IF \E k \in 1..26 : UpperCase[k] = c
    THEN LowerCase[CHOOSE k \in 1..26 : UpperCase[k] = c]
    ELSE c

\* str.lower()
Lower(str) == [j \in 1..Len(str) |-> LowerChar(str[j])]

\* sub in str
HasSubstring(str, sub) ==
    \E p \in 0..(Len(str) - Len(sub)) : \A j \in 1..Len(sub) : str[p + j] = sub[j]

\* str.endswith(suffix)
EndsWith(str, suffix) ==
    /\ Len(suffix) <= Len(str)
    /\ SubSeq(str, Len(str) - Len(suffix) + 1, Len(str)) = suffix

(***************************************************************************)
(* get_file_names: the parser of the listing of `7z l`.                    *)
(***************************************************************************)
\* \s
IsSpace(c) == c \in {" ", "\t", "\n", "\r", "\f"}

\* [a-zA-Z0-9\.\-,_\\]
IsNameChar(c) ==
    \/ \E k \in 1..26 : UpperCase[k] = c \/ LowerCase[k] = c
    \/ c \in Digits
    \/ c \in {".", "-", ",", "_", "\\"}

\* (?:W+( W+)?)+ for W the class above: name characters and single spaces,
\* each space between two name characters, and no two spaces around one
\* single character (a group holds at most one space and starts with W)
IsNameField(str) ==
    /\ Len(str) > 0
    /\ \A j \in 1..Len(str) :
         \/ IsNameChar(str[j])
         \/ /\ str[j] = " "
            /\ j > 1 /\ j < Len(str)
            /\ IsNameChar(str[j - 1]) /\ IsNameChar(str[j + 1])
            /\ (j + 2 <= Len(str) => str[j + 2] # " ")

\* index of the first carriage return at or after position p, 0 if none
FirstCR(line, p) ==
    IF \E q \in p..Len(line) : line[q] = "\r"
    THEN CHOOSE q \in p..Len(line) :
            line[q] = "\r" /\ \A r \in p..(q - 1) : line[r] # "\r"
    ELSE 0

\* FILE_NAME_REGEX matches with its two blanks at positions p and p + 1
MatchesAt(line, p) ==
    /\ p + 2 <= Len(line)
    /\ IsSpace(line[p]) /\ IsSpace(line[p + 1])
    /\ FirstCR(line, p + 2) # 0
    /\ IsNameField(SubSeq(line, p + 2, FirstCR(line, p + 2) - 1))

\* re.search(FILE_NAME_REGEX, line): group(1) of the leftmost match, or <<>>
FileNameOf(line) ==
    IF \E p \in 1..Len(line) : MatchesAt(line, p)
    THEN LET p == CHOOSE p \in 1..Len(line) :
                    MatchesAt(line, p) /\ \A r \in 1..(p - 1) : ~MatchesAt(line, r)
         IN  SubSeq(line, p + 2, FirstCR(line, p + 2) - 1)
    ELSE <<>>

HeaderWords ==
    <<<<"d", "a", "t", "e">>, <<"t", "i", "m", "e">>, <<"a", "t", "t", "r">>,
      <<"s", "i", "z", "e">>,
      <<"c", "o", "m", "p", "r", "e", "s", "s", "e", "d">>, <<"n", "a", "m", "e">>>>

\* all(item.lower() in line.lower() for item in ("Date", ..., "Name"))
IsTableHeader(line) ==
    \A k \in 1..Len(HeaderWords) : HasSubstring(Lower(line), HeaderWords[k])

\* "-----" in line
IsDashed(line) == HasSubstring(line, <<"-", "-", "-", "-", "-">>)

\* a flag that a dashed line can only set
ToggleStuck(flag) == TRUE

\* lines 166-169: a dashed line inside the table flips items_under_header
Toggle(flag) == ~flag

\* "Listing archive:  s.zip\r"
LinePre ==
    <<"L", "i", "s", "t", "i", "n", "g", " ", "a", "r", "c", "h", "i", "v", "e", ":", " ", " ",
      "s", ".", "z", "i", "p", "\r">>
\* "   Date   Time  Attr  Size  Compressed  Name\r"
LineHeader ==
    <<" ", " ", " ", "D", "a", "t", "e", " ", " ", " ", "T", "i", "m", "e", " ", " ", "A", "t",
      "t", "r", " ", " ", "S", "i", "z", "e", " ", " ", "C", "o", "m", "p", "r", "e", "s", "s",
      "e", "d", " ", " ", "N", "a", "m", "e", "\r">>
\* "---------- ----- ---- ----  ------\r"
LineSeparator ==
    <<"-", "-", "-", "-", "-", "-", "-", "-", "-", "-", " ", "-", "-", "-", "-", "-", " ", "-",
      "-", "-", "-", " ", "-", "-", "-", "-", " ", " ", "-", "-", "-", "-", "-", "-", "\r">>
\* "2021-01-01 ....A 12 7  a.exe\r"
LineMember1 ==
    <<"2", "0", "2", "1", "-", "0", "1", "-", "0", "1", " ", ".", ".", ".", ".", "A", " ", "1",
      "2", " ", "7", " ", " ", "a", ".", "e", "x", "e", "\r">>
\* "2021-01-01 ....A 12 7  b c.DLL\r"
LineMember2 ==
    <<"2", "0", "2", "1", "-", "0", "1", "-", "0", "1", " ", ".", ".", ".", ".", "A", " ", "1",
      "2", " ", "7", " ", " ", "b", " ", "c", ".", "D", "L", "L", "\r">>
\* "2021-01-01 ....A 12 7  x-----y.exe\r"
LineDashName ==
    <<"2", "0", "2", "1", "-", "0", "1", "-", "0", "1", " ", ".", ".", ".", ".", "A", " ", "1",
      "2", " ", "7", " ", " ", "x", "-", "-", "-", "-", "-", "y", ".", "e", "x", "e", "\r">>
\* "2021-01-01 24 14  2 files\r"
LineSummary ==
    <<"2", "0", "2", "1", "-", "0", "1", "-", "0", "1", " ", "2", "4", " ", "1", "4", " ", " ",
      "2", " ", "f", "i", "l", "e", "s", "\r">>

\* the lines a report of the tool is made of
ReportLines ==
    <<LinePre, LineHeader, LineSeparator, LineMember1, LineMember2, LineDashName,
      LineSummary>>
\* what lines 165, 175 and 183 find in a line
Scan(line) ==
    [dashed |-> IsDashed(line), header |-> IsTableHeader(line), name |-> FileNameOf(line)]

\* Scan of every line of ReportLines, computed once
Scanned == [k \in DOMAIN ReportLines |-> Scan(ReportLines[k])]

ListInit ==
    /\ ZipIdle /\ EaIdle /\ FilterIdle /\ DispatchIdle /\ UploadIdle
    /\ gl_pc = "loop"
    /\ report = <<>>
    /\ in_table = FALSE
    /\ items_under_header = FALSE
    /\ file_names = <<>>

\* lines 162-184: the body of the loop, for the next line of the listing
ReadLine ==
    /\ gl_pc = "loop"
    /\ Len(report) < MaxLines
    /\ \E k \in DOMAIN ReportLines :
         LET line == Scanned[k] IN
         /\ report' = Append(report, k)
         /\ IF in_table
            THEN IF line.dashed
                 THEN /\ items_under_header' = Toggle(items_under_header)
                      /\ UNCHANGED <<in_table, file_names>>
                 ELSE /\ file_names' =
                           IF items_under_header /\ line.name # <<>>
                           THEN Append(file_names, line.name)
                           ELSE file_names
                      /\ UNCHANGED <<in_table, items_under_header>>
            ELSE /\ in_table' = line.header
                 /\ UNCHANGED <<items_under_header, file_names>>
    /\ UNCHANGED gl_pc
    /\ UNCHANGED notListVars

\* line 186: the listing has no more lines
ListReturn ==
    /\ gl_pc = "loop"
    /\ gl_pc' = "done"
    /\ UNCHANGED <<report, in_table, items_under_header, file_names>>
    /\ UNCHANGED notListVars

ListNext ==
    \/ ReadLine
    \/ ListReturn

SpecList == ListInit /\ [][ListNext]_vars

(***************************************************************************)
(* Claims about get_file_names, checked under SpecList.                    *)
(***************************************************************************)
C9_Line(i) == Scanned[report[i]]

\* the first column-header line of the report, 0 if there is none
C9_Header ==
    IF \E h \in DOMAIN report : C9_Line(h).header
    THEN CHOOSE h \in DOMAIN report :
            C9_Line(h).header /\ \A g \in 1..(h - 1) : ~C9_Line(g).header
    ELSE 0

\* line i lies after the header h and after an opening dashed line that no
\* closing dashed line has followed yet
C9_InWindow(h, i) ==
    /\ h # 0 /\ i > h
    /\ ~C9_Line(i).dashed
    /\ Cardinality({j \in (h + 1)..(i - 1) : C9_Line(j).dashed}) % 2 = 1

\* a dashed line follows line i
C9_ClosedLater(i) == \E c \in (i + 1)..Len(report) : C9_Line(c).dashed

\* the file-name fields of the lines from i on that lie in a window (closed:
\* in a window that a closing dashed line ends)
RECURSIVE C9_Fields(_, _, _)
C9_Fields(h, i, closed) ==
    IF i > Len(report) THEN <<>>
    ELSE IF C9_InWindow(h, i) /\ (closed => C9_ClosedLater(i)) /\ C9_Line(i).name # <<>>
         THEN <<C9_Line(i).name>> \o C9_Fields(h, i + 1, closed)
         ELSE C9_Fields(h, i + 1, closed)

\* C9 as claimed: the result is exactly the file-name fields of the lines
\* after the header line that lie between an opening dashed line and the
\* next closing dashed line.
C9_ClosedWindows ==
    gl_pc = "done" => file_names = C9_Fields(C9_Header, 1, TRUE)

\* C9 as amended: the result is exactly the file-name fields of the lines
\* after the header line that follow an opening dashed line, up to the next
\* closing dashed line or, when none follows, the end of the report; the
\* report header, separator, two members, separator gives the two names.
C9_OpenWindows ==
    /\ gl_pc # "idle" => file_names = C9_Fields(C9_Header, 1, FALSE)
    /\ (gl_pc = "done" /\ report = <<2, 3, 4, 5, 3>>) =>
          file_names = <<<<"a", ".", "e", "x", "e">>, <<"b", " ", "c", ".", "D", "L", "L">>>>

C9_Witness ==
    /\ gl_pc = "done"
    /\ report = <<2, 3, 4, 5, 3>>
    /\ file_names = <<<<"a", ".", "e", "x", "e">>, <<"b", " ", "c", ".", "D", "L", "L">>>>
(***************************************************************************)
(* get_interesting_files: the filter on EXE_REGEX.                         *)
(***************************************************************************)
\* the alternatives of EXE_REGEX
Extensions ==
    <<<<".", "e", "x", "e">>,
      <<".", "d", "l", "l">>,
      <<".", "s", "c", "r">>,
      <<".", "m", "s", "i">>,
      <<".", "b", "a", "t">>,
      <<".", "l", "n", "k">>,
      <<".", "j", "s">>,
      <<".", "j", "s", "e">>,
      <<".", "v", "b", "s">>,
      <<".", "v", "b", "e">>,
      <<".", "w", "s", "f">>,
      <<".", "p", "s", "1">>,
      <<".", "d", "b">>,
      <<".", "c", "m", "d">>,
      <<".", "d", "a", "t">>,
      <<".", "t", "m", "p">>,
      <<".", "t", "e", "m", "p">>,
      <<".", "d", "o", "c">>,
      <<".", "x", "l", "s">>>>

\* `$` after the first e characters of str: the end of the text and, in the
\* standard re module (not in re2), the place before a line feed that ends it
DollarAt(str, e) ==
    \/ e = Len(str)
    \/ regexLib = "re" /\ e = Len(str) - 1 /\ str[Len(str)] = "\n"

\* re.search(EXE_REGEX, f), flags=re.IGNORECASE
ExeRegexSearch(f) ==
    \E k \in DOMAIN Extensions, e \in 0..Len(f) :
        DollarAt(f, e) /\ EndsWith(Lower(SubSeq(f, 1, e)), Extensions[k])

\* lines 293-299
RECURSIVE get_interesting_files(_)
get_interesting_files(names) ==
    IF names = <<>> THEN <<>>
    ELSE (IF ExeRegexSearch(Head(names)) THEN <<Head(names)>> ELSE <<>>)
         \o get_interesting_files(Tail(names))

SampleNames ==
    { <<"a", ".", "t", "x", "t">>,
      <<"b", ".", "e", "x", "e">>,
      <<"c", ".", "D", "L", "L">>,
      <<"r", "e", "a", "d", "m", "e", ".", "m", "d">>,
      <<"b", ".", "e", "x", "e", "\n">>,
      <<"e", "x", "e">>,
      <<"x", ".", "t", "e", "m", "p">> }

FilterInit ==
    /\ ZipIdle /\ EaIdle /\ ListIdle /\ DispatchIdle /\ UploadIdle
    /\ gi_pc = "call"
    /\ regexLib \in {"re", "re2"}
    /\ gi_in \in SeqsUpTo(SampleNames, MaxNames)
    /\ interesting_files = <<>>
    /\ filtered_again = <<>>

\* get_interesting_files(file_names)
FilterCall ==
    /\ gi_pc = "call"
    /\ interesting_files' = get_interesting_files(gi_in)
    /\ gi_pc' = "returned"
    /\ UNCHANGED <<regexLib, gi_in, filtered_again>>
    /\ UNCHANGED notFilterVars

\* get_interesting_files applied to the list it returned
FilterAgain ==
    /\ gi_pc = "returned"
    /\ filtered_again' = get_interesting_files(interesting_files)
    /\ gi_pc' = "done"
    /\ UNCHANGED <<regexLib, gi_in, interesting_files>>
    /\ UNCHANGED notFilterVars

FilterNext ==
    \/ FilterCall
    \/ FilterAgain

SpecFilter == FilterInit /\ [][FilterNext]_vars

(***************************************************************************)
(* Claims about get_interesting_files, checked under SpecFilter.           *)
(***************************************************************************)
\* the name ends, letter case aside, in one of the fixed extensions
C10_HasExtension(f) == \E k \in DOMAIN Extensions : EndsWith(Lower(f), Extensions[k])

\* C10: the result is exactly the subsequence of the input made of the names
\* whose suffix, compared case-insensitively, is one of the fixed extensions
\* (order and duplicates kept, nothing added or altered), and filtering the
\* result again returns it unchanged.
C10_ExactSubsequence ==
    /\ gi_pc \in {"returned", "done"} =>
          interesting_files = SelectSeq(gi_in, C10_HasExtension)
    /\ gi_pc = "done" => filtered_again = interesting_files

(***************************************************************************)
(* ArchivePackage.execute_interesting_file: the dispatch of one extracted  *)
(* file to a launcher.  The collaborators of Package and lib.common (the   *)
(* three lookups, execute, choose_dll_export, is_pe_image and              *)
(* check_file_extension) are recorded as calls, in the order they are made.*)
(***************************************************************************)
Launchers ==
    {"cmd.exe", "msiexec.exe", "wscript.exe", "regsvr32.exe", "rundll32.exe",
     "powershell.exe", "WINWORD.EXE", "WORDVIEW.EXE", "EXCEL.EXE"}

\* one call of a collaborator
Call(op, arg, found, args, target) ==
    [op |-> op, arg |-> arg, found |-> found, args |-> args, target |-> target]

\* get_path / get_path_app_in_path / get_path_glob: the path of the binary,
\* or CuckooPackageError when it is not there
Lookup(kind, binary, present) == Call(kind, binary, binary \in present, <<>>, <<>>)

\* self.execute(path, args, file_path)
ExecuteCall(binary, args, target) == Call("execute", binary, TRUE, args, target)

\* the suffix tuples of the elif chain
LnkBatCmd == << <<".", "l", "n", "k">>, <<".", "b", "a", "t">>, <<".", "c", "m", "d">> >>
Msi == << <<".", "m", "s", "i">> >>
Scripts ==
    << <<".", "j", "s">>, <<".", "j", "s", "e">>, <<".", "v", "b", "s">>,
       <<".", "v", "b", "e">>, <<".", "w", "s", "f">> >>
DllLike ==
    << <<".", "d", "l", "l">>, <<".", "d", "b">>, <<".", "d", "a", "t">>,
       <<".", "t", "m", "p">>, <<".", "t", "e", "m", "p">> >>
Dll == << <<".", "d", "l", "l">> >>
Ps1 == << <<".", "p", "s", "1">> >>
Doc == << <<".", "d", "o", "c">> >>
Xls == << <<".", "x", "l", "s">> >>
Exe == <<".", "e", "x", "e">>

\* a suffix test that forgets to fold the case of the name
NameEndsWithCased(file_name, suffixes) ==
    \E k \in DOMAIN suffixes : EndsWith(file_name, suffixes[k])

\* file_name.lower().endswith(suffixes)
NameEndsWith(file_name, suffixes) ==
    \E k \in DOMAIN suffixes : EndsWith(Lower(file_name), suffixes[k])

PE_INDICATORS == <<"MZ", "This program cannot be run in DOS mode">>

\* the n-th f.read() on a freshly opened file: the first returns everything,
\* the later ones start at the end of the file
f_read(content, n) == IF n = 1 THEN content ELSE <<>>

\* a sniff that lets every file through
AnyIndicatorSkipped(content) == TRUE

\* any(PE_indicator in f.read() for PE_indicator in PE_INDICATORS): the
\* generator calls f.read() anew for each indicator it gets to
AnyIndicator(content) ==
    \E n \in DOMAIN PE_INDICATORS : Contains(f_read(content, n), PE_INDICATORS[n])

\* check_file_extension(file_path, ".exe")
check_file_extension(file_path) ==
    IF EndsWith(Lower(file_path), Exe) THEN file_path ELSE file_path \o Exe

\* the first branch of the elif chain of lines 45-97 whose suffix test holds
\* (8 when none does)
ElifBranch(file_name) ==
    IF NameEndsWith(file_name, LnkBatCmd) THEN 1
    ELSE IF NameEndsWith(file_name, Msi) THEN 2
    ELSE IF NameEndsWith(file_name, Scripts) THEN 3
    ELSE IF NameEndsWith(file_name, DllLike) THEN 4
    ELSE IF NameEndsWith(file_name, Ps1) THEN 5
    ELSE IF NameEndsWith(file_name, Doc) THEN 6
    ELSE IF NameEndsWith(file_name, Xls) THEN 7
    ELSE 8

PlainNames ==
    { <<"a", ".", "l", "n", "k">>,
      <<"r", ".", "C", "M", "D">>,
      <<"s", ".", "m", "s", "i">>,
      <<"p", "a", "y", "l", "o", "a", "d", ".", "J", "S">>,
      <<"v", ".", "v", "b", "e">>,
      <<"p", ".", "p", "s", "1">>,
      <<"r", ".", "d", "o", "c">>,
      <<"t", ".", "x", "l", "s">> }

DllNames == { <<"l", "i", "b", ".", "d", "l", "l">> }

DisguisedNames ==
    { <<"l", "i", "b", ".", "d", "a", "t">>,
      <<"c", ".", "D", "b">>,
      <<"t", ".", "t", "m", "p">>,
      <<"x", ".", "T", "E", "M", "P">> }

OtherNames ==
    { <<"a", "p", "p", ".", "e", "x", "e">>,
      <<"b", "l", "o", "b">>,
      <<"j", "s">> }

CandidateNames == PlainNames \cup DllNames \cup DisguisedNames \cup OtherNames

\* the suffix tests of every candidate name, computed once
Suffixes ==
    [n \in CandidateNames |->
        [branch |-> ElifBranch(n), dll |-> NameEndsWith(n, Dll),
         exe |-> check_file_extension(n)]]

\* the outcome of one call: the case taken, the calls made, how the call
\* ended and the binaries on disk afterwards
Ended(case, calls, how, present) ==
    [case |-> case, calls |-> calls, result |-> how, disk |-> present]

\* the lookup raises CuckooPackageError
LookupFailed(lookup) == ~lookup.found

\* a launch that goes on with a binary that was not found
LaunchAnyway(case, before, lookup, args, target, present) ==
    Ended(case, before \o <<lookup, ExecuteCall(lookup.arg, args, target)>>,
          "executed", present)

\* one lookup, then execute with the binary found
LaunchWith(case, before, lookup, args, target, present) ==
    IF LookupFailed(lookup)
    THEN Ended(case, Append(before, lookup), "CuckooPackageError", present)
    ELSE Ended(case, before \o <<lookup, ExecuteCall(lookup.arg, args, target)>>,
               "executed", present)

\* lines 45-48 and 106-109: cmd.exe /c "cd root && start /wait file_path"
ShellStart(case, before, file_path, present) ==
    LaunchWith(case, before, Lookup("get_path", "cmd.exe", present),
               <<"/c", "cd", "root", "start /wait", file_path>>, file_path, present)

\* lines 55-59: cmd.exe /c "cd root && wscript file_path"
ScriptHost(file_path, present) ==
    LET cmd == Lookup("get_path", "cmd.exe", present)
        wscript == Lookup("get_path_app_in_path", "wscript.exe", present)
    IN  IF LookupFailed(cmd)
        THEN Ended(3, <<cmd>>, "CuckooPackageError", present)
        ELSE IF LookupFailed(wscript)
        THEN Ended(3, <<cmd, wscript>>, "CuckooPackageError", present)
        ELSE Ended(3, <<cmd, wscript,
                        ExecuteCall("cmd.exe",
                                    <<"/c", "cd", "root", "wscript.exe", file_path>>,
                                    file_path)>>,
                   "executed", present)

\* lines 67-82, after the content test: export inspection, launcher, loader
\* copy and launch.  `function` is assigned on the rundll32 branch only, so
\* line 75 raises UnboundLocalError on the regsvr32 branch.
DllLaunch(file, before, opts, present) ==
    LET inspect == Call("choose_dll_export", "", TRUE, <<>>, file.name)
        regsvr32 == Lookup("get_path", "regsvr32.exe", present)
        rundll32 == Lookup("get_path_app_in_path", "rundll32.exe", present)
        function == IF opts.function = "" THEN "#1" ELSE opts.function
        dll_args == <<file.name, function>>
                    \o (IF opts.arguments # "" THEN <<opts.arguments>> ELSE <<>>)
        copy == Call("shutil.copy", "rundll32.exe", TRUE, <<>>, opts.dllloader)
    IN  IF file.export = "DllRegisterServer"
        THEN IF LookupFailed(regsvr32)
             THEN Ended(4, before \o <<inspect, regsvr32>>, "CuckooPackageError", present)
             ELSE Ended(4, before \o <<inspect, regsvr32>>, "UnboundLocalError", present)
        ELSE IF LookupFailed(rundll32)
        THEN Ended(4, before \o <<inspect, rundll32>>, "CuckooPackageError", present)
        ELSE IF opts.dllloader # ""
        THEN Ended(4, before \o <<inspect, rundll32, copy,
                                   ExecuteCall(opts.dllloader, dll_args, file.name)>>,
                   "executed", present \cup {opts.dllloader})
        ELSE Ended(4, before \o <<inspect, rundll32,
                                   ExecuteCall("rundll32.exe", dll_args, file.name)>>,
                   "executed", present)

\* lines 61-82
DllCase(file, opts, present) ==
    LET read == Call("open", "", TRUE, <<>>, file.name)
    IN  IF ~Suffixes[file.name].dll
        THEN IF ~AnyIndicator(file.content)
             THEN Ended(4, <<read>>, "none", present)
             ELSE DllLaunch(file, <<read>>, opts, present)
        ELSE DllLaunch(file, <<>>, opts, present)

\* a .doc case without the except branch
DocCaseNoFallback(file_path, present) ==
    LaunchWith(6, <<>>, Lookup("get_path_glob", "WINWORD.EXE", present),
               <<file_path, "/q">>, file_path, present)

\* lines 89-95: WINWORD.EXE, or WORDVIEW.EXE when the first lookup raises
DocCase(file_path, present) ==
    LET winword == Lookup("get_path_glob", "WINWORD.EXE", present)
        wordview == Lookup("get_path_glob", "WORDVIEW.EXE", present)
    IN  IF LookupFailed(winword)
        THEN LaunchWith(6, <<winword>>, wordview, <<file_path, "/q">>, file_path, present)
        ELSE LaunchWith(6, <<>>, winword, <<file_path, "/q">>, file_path, present)

\* lines 102-109: a PE image is launched itself, anything else by the shell
ByContent(file, opts, present) ==
    LET sniff == Call("is_pe_image", "", file.pe, <<>>, file.name)
        exe == Suffixes[file.name].exe
    IN  IF file.pe
        THEN Ended(8, <<sniff, ExecuteCall(exe, <<opts.arguments>>, exe)>>,
                   "executed", present)
        ELSE ShellStart(9, <<sniff>>, file.name, present)

\* lines 39-109
execute_interesting_file(file, opts, present) ==
    LET branch == Suffixes[file.name].branch
    IN  IF branch = 1
        THEN ShellStart(1, <<>>, file.name, present)
        ELSE IF branch = 2
        THEN LaunchWith(2, <<>>, Lookup("get_path", "msiexec.exe", present),
                        <<"/I", file.name>>, file.name, present)
        ELSE IF branch = 3
        THEN ScriptHost(file.name, present)
        ELSE IF branch = 4
        THEN DllCase(file, opts, present)
        ELSE IF branch = 5
        THEN LaunchWith(5, <<>>, Lookup("get_path_app_in_path", "powershell.exe", present),
                        <<"-NoProfile", "-ExecutionPolicy bypass", "-File", file.name>>,
                        file.name, present)
        ELSE IF branch = 6
        THEN DocCase(file.name, present)
        ELSE IF branch = 7
        THEN LaunchWith(7, <<>>, Lookup("get_path_glob", "EXCEL.EXE", present),
                        <<file.name, "/q">>, file.name, present)
        ELSE ByContent(file, opts, present)

(***************************************************************************)
(* The candidate files, options and disks a run draws from.                *)
(***************************************************************************)
File(name, content, export, pe) ==
    [name |-> name, content |-> content, export |-> export, pe |-> pe]

\* what open(file_path, "rb").read() returns, as the pieces it is made of
NotPE == <<"GIF89a">>
OnlyMZ == <<"MZ", "code">>
OnlyDosText == <<"stub", "This program cannot be run in DOS mode">>
BothIndicators == <<"MZ", "This program cannot be run in DOS mode">>

Exports == {"DllRegisterServer", "DllMain"}

\* the attributes a dispatch does not read are left empty
CandidateFiles ==
    {File(n, <<>>, "", FALSE) : n \in PlainNames}
    \cup {File(n, <<>>, e, FALSE) : n \in DllNames, e \in Exports}
    \cup {File(n, NotPE, "", FALSE) : n \in DisguisedNames}
    \cup {File(<<"l", "i", "b", ".", "d", "a", "t">>, c, "DllMain", FALSE) :
             c \in {OnlyMZ, OnlyDosText, BothIndicators}}
    \cup {File(<<"l", "i", "b", ".", "d", "a", "t">>, OnlyMZ, "DllRegisterServer", FALSE),
          File(<<"x", ".", "T", "E", "M", "P">>, OnlyDosText, "DllMain", FALSE)}
    \cup {File(n, <<>>, "", pe) : n \in OtherNames \ {<<"j", "s">>}, pe \in BOOLEAN}
    \cup {File(<<"j", "s">>, <<>>, "", FALSE)}

OptionSets ==
    [function : {"", "Start"}, arguments : {"", "-x"}, dllloader : {"", "ldr.exe"}]

\* every launcher installed, one missing, or neither word processor
Disks ==
    {Launchers}
    \cup {Launchers \ {b} : b \in Launchers}
    \cup {Launchers \ {"WINWORD.EXE", "WORDVIEW.EXE"}}

DispatchInit ==
    /\ ZipIdle /\ EaIdle /\ ListIdle /\ FilterIdle /\ UploadIdle
    /\ options \in OptionSets
    /\ disk \in Disks
    /\ dispatched = <<>>
    /\ dispatch = NoDispatch

\* the caller dispatches its next candidate file; whatever the call raises
\* ends that dispatch only
Dispatch ==
    /\ Len(dispatched) < MaxDispatch
    /\ \E file \in CandidateFiles :
         LET r == execute_interesting_file(file, options, disk)
         IN  /\ dispatch' = [file |-> file, before |-> disk, after |-> r.disk,
                             calls |-> r.calls, result |-> r.result, case |-> r.case]
             /\ disk' = r.disk
             /\ dispatched' = Append(dispatched, r.result)
    /\ UNCHANGED options
    /\ UNCHANGED notDispatchVars

DispatchNext == Dispatch

SpecDispatch == DispatchInit /\ [][DispatchNext]_vars

(***************************************************************************)
(* Claims about execute_interesting_file, checked under SpecDispatch.      *)
(***************************************************************************)
Executes == {j \in DOMAIN dispatch.calls : dispatch.calls[j].op = "execute"}
Lookups ==
    {j \in DOMAIN dispatch.calls :
        dispatch.calls[j].op \in {"get_path", "get_path_app_in_path", "get_path_glob"}}
Dispatching == dispatch.result # "idle"

\* the case the claim assigns to each sample file, from its extension read
\* without regard to letter case, and from the PE test for the others
C11_Case(file) ==
    CASE file.name \in {<<"a", ".", "l", "n", "k">>, <<"r", ".", "C", "M", "D">>} -> 1
      [] file.name = <<"s", ".", "m", "s", "i">> -> 2
      [] file.name \in {<<"p", "a", "y", "l", "o", "a", "d", ".", "J", "S">>,
                        <<"v", ".", "v", "b", "e">>} -> 3
      [] file.name \in DllNames \cup DisguisedNames -> 4
      [] file.name = <<"p", ".", "p", "s", "1">> -> 5
      [] file.name = <<"r", ".", "d", "o", "c">> -> 6
      [] file.name = <<"t", ".", "x", "l", "s">> -> 7
      [] OTHER -> IF file.pe THEN 8 ELSE 9

\* the binaries each case may launch
C11_Binaries(case, file) ==
    CASE case \in {1, 3, 9} -> {"cmd.exe"}
      [] case = 2 -> {"msiexec.exe"}
      [] case = 4 -> {"regsvr32.exe", "rundll32.exe", "ldr.exe"}
      [] case = 5 -> {"powershell.exe"}
      [] case = 6 -> {"WINWORD.EXE", "WORDVIEW.EXE"}
      [] case = 7 -> {"EXCEL.EXE"}
      [] OTHER -> {file.name, file.name \o <<".", "e", "x", "e">>}

\* C11: every dispatch takes the first of the nine cases whose condition
\* holds (extensions without regard to case), launches only what that case
\* launches and calls execute at most once; payload.JS goes to the command
\* shell invoking the script host; the PE test is made only when no
\* extension case matched.
C11_FirstCaseWins ==
    Dispatching =>
        /\ dispatch.case = C11_Case(dispatch.file)
        /\ Cardinality(Executes) <= 1
        /\ \A j \in Executes :
              dispatch.calls[j].arg \in C11_Binaries(dispatch.case, dispatch.file)
        /\ (dispatch.file.name = <<"p", "a", "y", "l", "o", "a", "d", ".", "J", "S">>
              /\ dispatch.result = "executed") =>
              \E j \in Executes :
                  /\ dispatch.calls[j].arg = "cmd.exe"
                  /\ Contains(dispatch.calls[j].args, "wscript.exe")
        /\ (\E j \in DOMAIN dispatch.calls : dispatch.calls[j].op = "is_pe_image")
              <=> C11_Case(dispatch.file) \in {8, 9}

\* payload.JS was launched
C11_Witness ==
    /\ dispatch.file.name = <<"p", "a", "y", "l", "o", "a", "d", ".", "J", "S">>
    /\ dispatch.result = "executed"
    /\ dispatch.case = 3

HasOp(op) == \E j \in DOMAIN dispatch.calls : dispatch.calls[j].op = op
DosText == "This program cannot be run in DOS mode"

\* C12: a .db/.dat/.tmp/.temp file (any letter case) whose content has
\* neither 'MZ' nor the DOS-mode text is not launched: no execute, no
\* lookup, no export inspection, no loader copy, and the call returns.
C12_NoIndicatorNoAction ==
    (/\ Dispatching
     /\ dispatch.file.name \in DisguisedNames
     /\ ~Contains(dispatch.file.content, "MZ")
     /\ ~Contains(dispatch.file.content, DosText)) =>
        /\ dispatch.result = "none"
        /\ Executes = {} /\ Lookups = {}
        /\ ~HasOp("choose_dll_export") /\ ~HasOp("shutil.copy")
        /\ dispatch.after = dispatch.before

\* lib.dat starting with GIF89a was dispatched
C12_Witness ==
    /\ dispatch.file = File(<<"l", "i", "b", ".", "d", "a", "t">>, NotPE, "", FALSE)
    /\ dispatch.result = "none"
    /\ dispatch.calls # <<>>

\* C13: a dispatch in which a lookup finds no binary (the word-processor
\* lookup aside when the viewer is found) fails with the lookup error, calls
\* execute for nothing and leaves the disk as it was, so that the dispatches
\* after it run as if it had not been made.
C13_LookupFailureIsLocal ==
    (/\ Dispatching
     /\ \E j \in Lookups :
           /\ ~dispatch.calls[j].found
           /\ ~(dispatch.calls[j].arg = "WINWORD.EXE" /\ "WORDVIEW.EXE" \in dispatch.before)) =>
        /\ dispatch.result = "CuckooPackageError"
        /\ Executes = {}
        /\ ~HasOp("shutil.copy")
        /\ dispatch.after = dispatch.before
        /\ disk = dispatch.before

\* three dispatches: a launch, a failed lookup, a launch
C13_Witness ==
    /\ dispatched = <<"executed", "CuckooPackageError", "executed">>
    /\ dispatch.result = "executed"

\* C17: a .db/.dat/.tmp/.temp file goes on to export inspection and launcher
\* lookup when its content has 'MZ', and also when it has only the DOS-mode
\* text; a .dll file goes on without its content being read.
C17_EitherIndicator ==
    Dispatching =>
        /\ (/\ dispatch.file.name \in DisguisedNames
            /\ \/ Contains(dispatch.file.content, "MZ")
               \/ Contains(dispatch.file.content, DosText)) =>
              (HasOp("choose_dll_export") /\ Lookups # {})
        /\ dispatch.file.name \in DllNames =>
              (~HasOp("open") /\ HasOp("choose_dll_export") /\ Lookups # {})

\* C18: in case 4, an export DllRegisterServer with regsvr32.exe installed
\* gives exactly one execute call, of regsvr32.exe, whatever the options; any
\* other export with rundll32.exe installed launches the loader with the
\* function '#1' or the 'function' option.
C18_RegisterServer ==
    (Dispatching /\ HasOp("choose_dll_export")) =>
        /\ (dispatch.file.export = "DllRegisterServer"
              /\ "regsvr32.exe" \in dispatch.before) =>
              /\ Cardinality(Executes) = 1
              /\ \A j \in Executes : dispatch.calls[j].arg = "regsvr32.exe"
        /\ (dispatch.file.export # "DllRegisterServer"
              /\ "rundll32.exe" \in dispatch.before) =>
              /\ Cardinality(Executes) = 1
              /\ \A j \in Executes :
                    /\ dispatch.calls[j].arg \in {"rundll32.exe", options.dllloader}
                    /\ dispatch.calls[j].args[2] =
                          (IF options.function = "" THEN "#1" ELSE options.function)

\* C19: r.doc is launched with WINWORD.EXE, looked up first and alone when it
\* is found; with WORDVIEW.EXE, looked up second, when it is not; with
\* neither the dispatch fails and nothing is launched.  t.xls fails when
\* EXCEL.EXE is not found, after that one lookup.
C19_WordFallback ==
    Dispatching =>
        /\ dispatch.file.name = <<"r", ".", "d", "o", "c">> =>
              /\ dispatch.calls[1].op = "get_path_glob"
              /\ dispatch.calls[1].arg = "WINWORD.EXE"
              /\ "WINWORD.EXE" \in dispatch.before =>
                    /\ Len(dispatch.calls) = 2
                    /\ dispatch.calls[2] = ExecuteCall("WINWORD.EXE",
                          <<dispatch.file.name, "/q">>, dispatch.file.name)
              /\ ("WINWORD.EXE" \notin dispatch.before
                    /\ "WORDVIEW.EXE" \in dispatch.before) =>
                    /\ Len(dispatch.calls) = 3
                    /\ dispatch.calls[2].op = "get_path_glob"
                    /\ dispatch.calls[2].arg = "WORDVIEW.EXE"
                    /\ dispatch.calls[3].op = "execute"
                    /\ dispatch.calls[3].arg = "WORDVIEW.EXE"
              /\ ("WINWORD.EXE" \notin dispatch.before
                    /\ "WORDVIEW.EXE" \notin dispatch.before) =>
                    /\ dispatch.result = "CuckooPackageError"
                    /\ Executes = {}
        /\ (dispatch.file.name = <<"t", ".", "x", "l", "s">>
              /\ "EXCEL.EXE" \notin dispatch.before) =>
              /\ dispatch.result = "CuckooPackageError"
              /\ Executes = {}
              /\ Cardinality(Lookups) = 1

\* r.doc was opened by the viewer because WINWORD.EXE is not installed
C19_Witness ==
    /\ dispatch.file.name = <<"r", ".", "d", "o", "c">>
    /\ "WINWORD.EXE" \notin dispatch.before
    /\ dispatch.result = "executed"

(***************************************************************************)
(* upload_extracted_files: one try block per entry.  hash_file and         *)
(* upload_to_host are collaborators; a call of either returns or raises.   *)
(***************************************************************************)
\* entries of files_at_root, as the components of their relative path
EntrySamples == { <<"a.exe">>, <<"b.dll">>, <<"sub", "c.js">> }

\* os.path.join(root, entry)
RootJoin(entry) == <<"root">> \o entry

\* Path(entry).name
PathName(entry) == entry[Len(entry)]

\* what a collaborator call can end with: "ok" or the class of its exception
HashOutcomes == {"ok", "OSError"}
UploadOutcomes == {"ok", "OSError", "ValueError"}

\* a handler that catches the errors of the file system only
HandlerCatchesOSError(exc) == exc = "OSError"

\* except Exception: every error class of the collaborators derives from it
HandlerCatches(exc) == exc \in {"OSError", "ValueError"}

UpCall(op, arg, out) == [op |-> op, arg |-> arg, out |-> out]

UploadInit ==
    /\ ZipIdle /\ EaIdle /\ ListIdle /\ FilterIdle /\ DispatchIdle
    /\ up_pc = "loop"
    /\ files_at_root \in SeqsUpTo(EntrySamples, MaxEntries)
    /\ up_i = 1
    /\ up_calls = <<>>
    /\ up_result = "running"

\* lines 306-313: one iteration of the loop
UploadEntry ==
    /\ up_pc = "loop"
    /\ up_i <= Len(files_at_root)
    /\ \E h \in HashOutcomes, u \in UploadOutcomes :
         LET entry == files_at_root[up_i]
             file_path == RootJoin(entry)
             hashing == UpCall("hash_file", file_path, h)
             upload == UpCall("upload_to_host", file_path, u)
             tried == IF h = "ok" THEN <<hashing, upload>> ELSE <<hashing>>
             exc == IF h # "ok" THEN h ELSE u
             warning == UpCall("log.warning", PathName(entry), exc)
         IN  IF exc = "ok"
             THEN /\ up_calls' = up_calls \o tried
                  /\ up_i' = up_i + 1
                  /\ UNCHANGED <<up_pc, up_result>>
             ELSE IF HandlerCatches(exc)
             THEN /\ up_calls' = up_calls \o tried \o <<warning>>
                  /\ up_i' = up_i + 1
                  /\ UNCHANGED <<up_pc, up_result>>
             ELSE /\ up_calls' = up_calls \o tried
                  /\ up_pc' = "done"
                  /\ up_result' = exc
                  /\ UNCHANGED up_i
    /\ UNCHANGED files_at_root
    /\ UNCHANGED notUploadVars

\* the loop is over: the function returns None
UploadReturn ==
    /\ up_pc = "loop"
    /\ up_i > Len(files_at_root)
    /\ up_pc' = "done"
    /\ up_result' = "ok"
    /\ UNCHANGED <<files_at_root, up_i, up_calls>>
    /\ UNCHANGED notUploadVars

UploadNext ==
    \/ UploadEntry
    \/ UploadReturn

SpecUpload == UploadInit /\ [][UploadNext]_vars

(***************************************************************************)
(* Claims about upload_extracted_files, checked under SpecUpload.          *)
(***************************************************************************)
C14_IsAttempt(c) == c.op = "hash_file"
C14_IsFailure(c) == c.op # "log.warning" /\ c.out # "ok"
C14_IsWarning(c) == c.op = "log.warning"
C14_Attempts == SelectSeq(up_calls, C14_IsAttempt)

\* C14: the entries are attempted once each, in input order, whatever fails:
\* after k iterations the attempts are the first k entries, every failure was
\* logged, and the call returns normally after the last entry.
C14_EveryEntryAttempted ==
    /\ up_pc \in {"loop", "done"} =>
          /\ up_result \in {"running", "ok"}
          /\ Len(C14_Attempts) = up_i - 1
          /\ \A k \in DOMAIN C14_Attempts :
                C14_Attempts[k].arg = RootJoin(files_at_root[k])
          /\ Len(SelectSeq(up_calls, C14_IsFailure))
                = Len(SelectSeq(up_calls, C14_IsWarning))
    /\ up_pc = "done" => (up_result = "ok" /\ up_i = Len(files_at_root) + 1)

\* three entries were attempted although the first two failed, one in
\* hashing and one in the upload
C14_Witness ==
    /\ up_pc = "done"
    /\ Len(files_at_root) = 3
    /\ \E j, k \in DOMAIN up_calls :
          /\ j < k
          /\ up_calls[j].op = "hash_file" /\ up_calls[j].out # "ok"
          /\ up_calls[k].op = "upload_to_host" /\ up_calls[k].out # "ok"
    /\ up_calls[Len(up_calls)] = UpCall("upload_to_host", RootJoin(files_at_root[3]), "ok")
====
